---- MODULE Spec2Model ----
(***************************************************************************)
(* A model of the IP class of src/src/index.ts (@bitradius/ip): parsing    *)
(* IPv4 / IPv6 text into a Buffer, formatting it back, the decimal         *)
(* accessor, fromDecimal and splitHostPort.                                *)
(*                                                                         *)
(* JavaScript strings are sequences of one-character strings, Buffers are  *)
(* sequences of numbers in 0..255, and a big-integer value is the sequence *)
(* of its base-16 digits, most significant first, without leading zeros    *)
(* (the value 0 is the empty sequence), so that values up to and beyond    *)
(* 2^128 are represented exactly.                                          *)
(***************************************************************************)
EXTENDS Integers, Sequences, FiniteSets

(***************************************************************************)
(* JavaScript primitives used by the class                                 *)
(***************************************************************************)

HexChars == <<"0", "1", "2", "3", "4", "5", "6", "7", "8", "9", "a", "b", "c", "d", "e", "f">>

HexUpper == <<"0", "1", "2", "3", "4", "5", "6", "7", "8", "9", "A", "B", "C", "D", "E", "F">>

\* the value of `undefined` (an unset m_zone); no string equals it
Undefined == <<"undefined">>

\* the value NaN of parseInt; no input of the model carries a sign, so that
\* parseInt never yields a negative number
NaN == -1

Min(a, b) == IF a < b THEN a ELSE b

\* [0-9]
DigitChars == {HexChars[i] : i \in 1..10}

\* [0-9a-f]
LowerHexChars == {HexChars[i] : i \in 1..16}

\* the characters read as hex digits, of either case
AnyHexChars == LowerHexChars \cup {HexUpper[i] : i \in 1..16}

HexValues ==
    [c \in AnyHexChars |-> (CHOOSE i \in 1..16 : HexChars[i] = c \/ HexUpper[i] = c) - 1]

IsDigit(c) == c \in DigitChars

IsHex(c) == c \in AnyHexChars

HexVal(c) == HexValues[c]

\* the 0-based index of the first occurrence of sub in s at or after the
\* 1-based position i, -1 when there is none
RECURSIVE FirstHit(_, _, _)
FirstHit(s, sub, i) ==
    IF i + Len(sub) - 1 > Len(s) THEN -1
    ELSE IF \A k \in 1..Len(sub) : s[i + k - 1] = sub[k] THEN i - 1
    ELSE FirstHit(s, sub, i + 1)

\* String.prototype.indexOf(sub): 0-based, -1 when absent
IndexOfSub(s, sub) == FirstHit(s, sub, 1)

\* String.prototype.indexOf(c) for a one-character c
IndexOf(s, c) == FirstHit(s, <<c>>, 1)

\* String.prototype.substring(from, to): 0-based, to exclusive
Substring(s, from, to) == SubSeq(s, from + 1, to)

\* String.prototype.replace(sub, ''): the first occurrence only
ReplaceFirst(s, sub) ==
    LET i == IndexOfSub(s, sub)
    IN  IF i = -1 THEN s
        ELSE SubSeq(s, 1, i) \o SubSeq(s, i + Len(sub) + 1, Len(s))

\* String.prototype.split(sep) for a one-character sep
RECURSIVE Split(_, _)
Split(s, sep) ==
    LET i == IndexOf(s, sep)
    IN  IF i = -1 THEN <<s>>
        ELSE <<SubSeq(s, 1, i)>> \o Split(SubSeq(s, i + 2, Len(s)), sep)

\* Array.prototype.join(sep): null and undefined elements join as ''
RECURSIVE Join(_, _)
Join(parts, sep) ==
    IF Len(parts) = 0 THEN <<>>
    ELSE IF Len(parts) = 1 THEN parts[1]
    ELSE parts[1] \o sep \o Join(Tail(parts), sep)

\* String.prototype.padStart(n, c)
RECURSIVE PadStart(_, _, _)
PadStart(s, n, c) == IF Len(s) >= n THEN s ELSE PadStart(<<c>> \o s, n, c)

\* Number.prototype.toString(radix) of a non-negative integer
RECURSIVE NumToString(_, _)
NumToString(n, radix) ==
    IF n < radix THEN <<HexChars[n + 1]>>
    ELSE NumToString(n \div radix, radix) \o <<HexChars[(n % radix) + 1]>>

\* the digits of radix `radix` a string starts with (what parseInt reads)
RECURSIVE DigitPrefix(_, _)
DigitPrefix(s, radix) ==
    IF Len(s) = 0 \/ ~IsHex(s[1]) THEN <<>>
    ELSE IF HexVal(s[1]) >= radix THEN <<>>
    ELSE <<HexVal(s[1])>> \o DigitPrefix(Tail(s), radix)

RECURSIVE DigitsValue(_, _)
DigitsValue(ds, radix) ==
    IF Len(ds) = 0 THEN 0
    ELSE DigitsValue(SubSeq(ds, 1, Len(ds) - 1), radix) * radix + ds[Len(ds)]

\* parseInt(s, radix): the number written by the leading digits, NaN without one
ParseInt(s, radix) ==
    LET ds == DigitPrefix(s, radix)
    IN  IF Len(ds) = 0 THEN NaN ELSE DigitsValue(ds, radix)

\* the conversion of a number stored into a Uint8Array element
ToUint8(n) == IF n = NaN THEN 0 ELSE n % 256

\* Buffer.from(array)
BufferFromArray(nums) == [i \in 1..Len(nums) |-> ToUint8(nums[i])]

\* Buffer.from(s, 'hex'): two characters a byte, stopping at the first pair
\* that is not two hex digits; a last single character is dropped
RECURSIVE BufferFromHex(_)
BufferFromHex(s) ==
    IF Len(s) < 2 \/ ~IsHex(s[1]) \/ ~IsHex(s[2]) THEN <<>>
    ELSE <<HexVal(s[1]) * 16 + HexVal(s[2])>> \o BufferFromHex(SubSeq(s, 3, Len(s)))

\* buf.toString('hex')
RECURSIVE BufferToHex(_)
BufferToHex(b) ==
    IF Len(b) = 0 THEN <<>>
    ELSE <<HexChars[(b[1] \div 16) + 1], HexChars[(b[1] % 16) + 1]>> \o BufferToHex(Tail(b))

\* buf.slice(start, end): 0-based, end exclusive, clamped to the buffer
BufferSlice(b, start, end) == SubSeq(b, start + 1, Min(end, Len(b)))

\* source.copy(target, targetStart, 0, sourceEnd): the bytes of target after the copy
BufferCopy(source, target, targetStart, sourceEnd) ==
    LET n == Min(Min(sourceEnd, Len(source)), Len(target) - targetStart)
    IN  [i \in 1..Len(target) |->
            IF i > targetStart /\ i <= targetStart + n THEN source[i - targetStart]
            ELSE target[i]]

\* Buffer.alloc(n)
BufferAlloc(n) == [i \in 1..n |-> 0]

\* hex.match(/[0-9a-f]{4}/g) on the lowercase hex of a buffer: the successive
\* groups of four characters, a shorter rest dropped; <<>> stands for null
RECURSIVE MatchHextets(_)
MatchHextets(hex) ==
    IF Len(hex) < 4 THEN <<>>
    ELSE <<SubSeq(hex, 1, 4)>> \o MatchHextets(SubSeq(hex, 5, Len(hex)))

\* the leading zeros of a digit sequence removed
RECURSIVE StripZeros(_)
StripZeros(ds) ==
    IF Len(ds) > 0 /\ ds[1] = 0 THEN StripZeros(Tail(ds)) ELSE ds

\* BigInteger(hex, 16): the value of a string of hex digits
BigIntegerFromHex(hex) == StripZeros([i \in 1..Len(hex) |-> HexVal(hex[i])])

\* BigInteger(n) of a JavaScript number
RECURSIVE BigIntegerFromNumber(_)
BigIntegerFromNumber(n) ==
    IF n = 0 THEN <<>> ELSE BigIntegerFromNumber(n \div 16) \o <<n % 16>>

\* bigInt.toString(16)
BigIntegerToHex(v) ==
    IF Len(v) = 0 THEN <<"0">> ELSE [i \in 1..Len(v) |-> HexChars[v[i] + 1]]

(***************************************************************************)
(* class IP: the private helpers                                           *)
(***************************************************************************)

\* Buffer.from('00000000000000000000ffff', 'hex')
mappedV4Prefix == <<0, 0, 0, 0, 0, 0, 0, 0, 0, 0, 255, 255>>

\* /[0-9]{1,3}\.[0-9]{1,3}\.[0-9]{1,3}\.[0-9]{1,3}/.test(ip): the pattern is
\* not anchored, so a match is a digit, a dot, one to three digits, a dot,
\* one to three digits, a dot and a digit, anywhere in the string
isIPv4(ip) ==
    LET digitsAt(from, n) == \A k \in from..(from + n - 1) : IsDigit(ip[k])
    IN  \E dot1 \in 2..(Len(ip) - 5) :
            /\ ip[dot1] = "."
            /\ IsDigit(ip[dot1 - 1])
            /\ \E n2 \in 1..3 :
                   LET dot2 == dot1 + n2 + 1
                   IN  /\ dot2 + 3 <= Len(ip)
                       /\ ip[dot2] = "."
                       /\ digitsAt(dot1 + 1, n2)
                       /\ \E n3 \in 1..3 :
                              LET dot3 == dot2 + n3 + 1
                              IN  /\ dot3 + 1 <= Len(ip)
                                  /\ ip[dot3] = "."
                                  /\ digitsAt(dot2 + 1, n3)
                                  /\ IsDigit(ip[dot3 + 1])

\* /[0-9a-f:%]+/.test(ip): not anchored, one character of the class suffices
isIPv6(ip) ==
    \E i \in 1..Len(ip) : ip[i] \in LowerHexChars \cup {":", "%"}

\* v4StringToBuffer reading the octets with parseInt(octet, 16)
v4StringToBuffer_Radix16(ip) ==
    LET octets == Split(ip, ".")
        bytes == [i \in 1..Len(octets) |-> ParseInt(octets[i], 16)]
        ipBuffer == BufferFromArray(bytes)
        buffer == BufferCopy(mappedV4Prefix, BufferAlloc(16), 0, 12)
    IN  BufferCopy(ipBuffer, buffer, 12, 4)

v4StringToBuffer(ip) ==
    LET octets == Split(ip, ".")
        bytes == [i \in 1..Len(octets) |-> ParseInt(octets[i], 10)]
        ipBuffer == BufferFromArray(bytes)
        buffer == BufferCopy(mappedV4Prefix, BufferAlloc(16), 0, 12)
    IN  BufferCopy(ipBuffer, buffer, 12, 4)

\* the loop of expandV6 over the components left to visit; ins is computed
\* from the length of the whole list
RECURSIVE ExpandOctets(_, _)
ExpandOctets(octets, ins) ==
    IF Len(octets) = 0 THEN <<>>
    ELSE (IF Len(octets[1]) # 0
          THEN <<PadStart(octets[1], 4, "0")>>
          ELSE [i \in 1..ins |-> <<"0", "0", "0", "0">>])
         \o ExpandOctets(Tail(octets), ins)

expandV6(address) ==
    LET parts == Split(address, ":")
        octets == IF Len(address) >= 2 /\ address[1] = ":" /\ address[2] = ":"
                  THEN Tail(parts) ELSE parts
        ins == 8 - Len(octets) + 1
    IN  Join(ExpandOctets(octets, ins), <<":">>)

\* [thrown, buffer, zone]
v6StringToBuffer(ip) ==
    LET hasZone == IndexOf(ip, "%") # -1
        parts == Split(ip, "%")
    IN  IF hasZone /\ Len(parts) > 2
        THEN [thrown |-> TRUE, buffer |-> <<>>, zone |-> Undefined]
        ELSE LET addr == IF hasZone THEN parts[1] ELSE ip
                 zone == IF hasZone THEN parts[2] ELSE Undefined
                 expanded == expandV6(addr)
                 hex == Join(Split(expanded, ":"), <<>>)
             IN  [thrown |-> FALSE, buffer |-> BufferFromHex(hex), zone |-> zone]

\* ['0000', ..., '0000'].join(':') with n elements
ZeroRun(n) == Join([i \in 1..n |-> <<"0", "0", "0", "0">>], <<":">>)

\* the while loop of compressV6, with zeros.length = n
RECURSIVE CompressScan(_, _)
CompressScan(address, n) ==
    IF n <= 1 THEN address
    ELSE IF IndexOfSub(address, ZeroRun(n)) # -1
         THEN ReplaceFirst(address, ZeroRun(n))
         ELSE CompressScan(address, n - 1)

\* octet => (octet) ? parseInt(octet, 16).toString(16) : null, as join renders it
CompressOctet(octet) ==
    IF Len(octet) = 0 THEN <<>>
    ELSE IF ParseInt(octet, 16) = NaN THEN <<"N", "a", "N">>
    ELSE NumToString(ParseInt(octet, 16), 16)

compressV6(address) ==
    LET scanned == CompressScan(address, 8)
        marked == IF Len(scanned) > 0 /\ scanned[1] = ":" THEN <<":">> \o scanned
                  ELSE IF Len(scanned) = 0 THEN <<":", ":">>
                  ELSE scanned
        octets == Split(marked, ":")
    IN  Join([i \in 1..Len(octets) |-> CompressOctet(octets[i])], <<":">>)

\* [thrown, value]
v6ToString(bytes, expanded) ==
    LET hex == BufferToHex(bytes)
        octets == MatchHextets(hex)
    IN  IF Len(octets) = 0
        THEN [thrown |-> TRUE, value |-> <<>>]
        ELSE IF ~expanded
        THEN [thrown |-> FALSE, value |-> compressV6(Join(octets, <<":">>))]
        ELSE \* no hextet is '0000' once it went through toString(16), and a
             \* hextet has at most four characters: replace(/0000/g, '0')
             \* finds nothing
             [thrown |-> FALSE,
              value |-> Join([i \in 1..Len(octets) |->
                                NumToString(ParseInt(octets[i], 16), 16)], <<":">>)]

\* [thrown, value]; Uint8Array.prototype.map stores the string each byte is
\* turned into back into a Uint8Array, as a number, before join renders it
v4ToString(bytes, mapped) ==
    IF ~mapped
    THEN LET tail == BufferSlice(bytes, 12, Len(bytes))
             stored == [i \in 1..Len(tail) |->
                          ToUint8(ParseInt(NumToString(tail[i], 10), 10))]
         IN  [thrown |-> FALSE,
              value |-> Join([i \in 1..Len(stored) |-> NumToString(stored[i], 10)], <<".">>)]
    ELSE v6ToString(bytes, mapped)

(***************************************************************************)
(* class IP: the public operations.  An IP object is a record              *)
(* [m_bytes, m_isV4, m_zone].                                              *)
(***************************************************************************)

\* new IP()
NewIP == [m_bytes |-> BufferAlloc(16), m_isV4 |-> FALSE, m_zone |-> Undefined]

\* get decimal without the branch on isV4
decimal_WholeBuffer(ip) == BigIntegerFromHex(BufferToHex(ip.m_bytes))

\* get decimal
decimal(ip) ==
    IF ip.m_isV4
    THEN BigIntegerFromHex(BufferToHex(BufferSlice(ip.m_bytes, 12, Len(ip.m_bytes))))
    ELSE BigIntegerFromHex(BufferToHex(ip.m_bytes))

\* [thrown, value]
toString(ip, encoding) ==
    IF ip.m_isV4
    THEN v4ToString(ip.m_bytes, encoding = "mapped")
    ELSE LET r == v6ToString(ip.m_bytes, encoding = "expanded")
         IN  IF ip.m_zone = Undefined \/ Len(ip.m_zone) = 0 \/ r.thrown
             THEN r
             ELSE [thrown |-> FALSE, value |-> r.value \o <<"%">> \o ip.m_zone]

\* parse without the detection of the mapped prefix in the IPv6 branch
parse_NoMappedDetection(text) ==
    LET address == IF Len(text) > 0 /\ text[1] = "[" /\ text[Len(text)] = "]"
                   THEN Substring(text, 1, Len(text) - 1) ELSE text
    IN  IF address = <<":", ":">>
        THEN [thrown |-> FALSE, ip |-> NewIP]
        ELSE IF isIPv4(address)
        THEN [thrown |-> FALSE,
              ip |-> [m_bytes |-> v4StringToBuffer(address), m_isV4 |-> TRUE,
                      m_zone |-> Undefined]]
        ELSE IF isIPv6(address)
        THEN LET r == v6StringToBuffer(address)
             IN  IF r.thrown THEN [thrown |-> TRUE, ip |-> NewIP]
                 ELSE [thrown |-> FALSE,
                       ip |-> [m_bytes |-> r.buffer, m_isV4 |-> FALSE, m_zone |-> r.zone]]
        ELSE [thrown |-> TRUE, ip |-> NewIP]

\* [thrown, ip]
parse(text) ==
    LET address == IF Len(text) > 0 /\ text[1] = "[" /\ text[Len(text)] = "]"
                   THEN Substring(text, 1, Len(text) - 1) ELSE text
    IN  IF address = <<":", ":">>
        THEN [thrown |-> FALSE, ip |-> NewIP]
        ELSE IF isIPv4(address)
        THEN [thrown |-> FALSE,
              ip |-> [m_bytes |-> v4StringToBuffer(address), m_isV4 |-> TRUE,
                      m_zone |-> Undefined]]
        ELSE IF isIPv6(address)
        THEN LET r == v6StringToBuffer(address)
             IN  IF r.thrown THEN [thrown |-> TRUE, ip |-> NewIP]
                 ELSE [thrown |-> FALSE,
                       ip |-> [m_bytes |-> r.buffer,
                               m_isV4 |-> /\ Len(r.buffer) > 0
                                          /\ r.buffer[1] = 0
                                          /\ BufferSlice(r.buffer, 0, 12) = mappedV4Prefix,
                               m_zone |-> r.zone]]
        ELSE [thrown |-> TRUE, ip |-> NewIP]

\* [thrown, ip]; dec is [type |-> "number", value |-> n] or
\* [type |-> "BigInteger", value |-> digits]
fromDecimal(dec, forceV6) ==
    LET big == IF dec.type = "number" THEN BigIntegerFromNumber(dec.value) ELSE dec.value
        hex == PadStart(BigIntegerToHex(big), 32, "0")
        bytes == BufferFromHex(hex)
    IN  IF ~forceV6 /\ BufferSlice(bytes, 0, 12) = BufferAlloc(12)
        THEN [thrown |-> FALSE,
              ip |-> [m_bytes |-> BufferCopy(mappedV4Prefix, bytes, 0, 12),
                      m_isV4 |-> TRUE, m_zone |-> Undefined]]
        ELSE [thrown |-> FALSE,
              ip |-> [m_bytes |-> bytes, m_isV4 |-> FALSE, m_zone |-> Undefined]]

\* [thrown, host, port]
splitHostPort(host) ==
    IF IndexOf(host, ".") # -1
    THEN LET parts == Split(host, ":")
         IN  IF Len(parts) = 2
             THEN [thrown |-> FALSE, host |-> parts[1], port |-> ParseInt(parts[2], 10)]
             ELSE [thrown |-> FALSE, host |-> parts[1], port |-> 0]
    ELSE IF IndexOf(host, "[") # -1 /\ IndexOf(host, "]") # -1
    THEN LET close == IndexOf(host, "]")
             h == Substring(host, 0, close + 1)
             right == Substring(host, close + 1, Len(host))
             rightParts == Split(right, ":")
         IN  IF Len(right) = 0
             THEN [thrown |-> FALSE, host |-> h, port |-> 0]
             ELSE IF Len(rightParts) = 2
             THEN [thrown |-> FALSE, host |-> h,
                   port |-> ParseInt(IF Len(rightParts[2]) = 0 THEN <<"0">>
                                     ELSE rightParts[2], 10)]
             ELSE [thrown |-> TRUE, host |-> <<>>, port |-> 0]
    ELSE [thrown |-> TRUE, host |-> <<>>, port |-> 0]

(***************************************************************************)
(* The inputs of the model                                                 *)
(***************************************************************************)

\* how many of the octet values of OctetSamples the IPv4 inputs are built from
NumOctetSamples == 3

\* the longest zone identifier of an input text
MaxZoneLen == 1

\* how many hex digits beyond 32 the largest input of fromDecimal has
MaxExtraDigits == 2

OctetSamples == <<0, 255, 42, 192, 168, 2, 1, 100>>

Octets == {OctetSamples[i] : i \in 1..Min(NumOctetSamples, Len(OctetSamples))}

\* 192.168.2.1, the address of the repository's tests
TestV4 == <<192, 168, 2, 1>>

\* the IPv4 addresses of the inputs, as four octets
V4Addrs == [1..4 -> Octets] \cup {TestV4}

\* the non-zero value a hextet of an IPv6 input takes, by position
HextetSamples == <<9735, 63664, 16393, 2053, 182, 65535, 49320, 513>>

\* the IPv4-mapped address ::ffff:a.b.c.d as eight hextets
MappedHextets(o) == <<0, 0, 0, 0, 0, 65535, o[1] * 256 + o[2], o[3] * 256 + o[4]>>

\* ::b6, fe80::c71:69ab:9995:b5e0 and 2607:f8b0:4009:805::200e, addresses of the
\* repository's tests; :: and 2607:f8b0:4009:805:: are patterns of HextetSamples
TestV6 ==
    {<<0, 0, 0, 0, 0, 0, 0, 182>>,
     <<65152, 0, 0, 0, 3185, 27051, 39317, 46560>>,
     <<9735, 63664, 16393, 2053, 0, 0, 0, 8206>>}

\* the IPv6 addresses of the inputs, as eight hextets: every pattern of zero and
\* non-zero hextets, the mapped form of every IPv4 input, and the tests' addresses
V6Addrs ==
    {[i \in 1..8 |-> IF zero[i] THEN 0 ELSE HextetSamples[i]] : zero \in [1..8 -> BOOLEAN]}
        \cup {MappedHextets(o) : o \in V4Addrs}
        \cup TestV6

ZoneName == <<"e", "t", "h", "0">>

Zones == {SubSeq(ZoneName, 1, k) : k \in 1..Min(MaxZoneLen, Len(ZoneName))}

NumericPorts == {<<"0">>, <<"8", "0">>, <<"9", "9", "9", "9">>}

NonNumericPorts == {<<"d", "e", "a", "d">>, <<"h", "t", "t", "p">>}

(***************************************************************************)
(* The textual forms of an address, written out independently of the class *)
(***************************************************************************)

RefDigit(d) ==
    CASE d = 0 -> "0" [] d = 1 -> "1" [] d = 2 -> "2" [] d = 3 -> "3"
      [] d = 4 -> "4" [] d = 5 -> "5" [] d = 6 -> "6" [] d = 7 -> "7"
      [] d = 8 -> "8" [] d = 9 -> "9" [] d = 10 -> "a" [] d = 11 -> "b"
      [] d = 12 -> "c" [] d = 13 -> "d" [] d = 14 -> "e" [] d = 15 -> "f"

\* a hextet in lowercase hex without leading zeros
RefHextet(v) ==
    IF v >= 4096 THEN <<RefDigit(v \div 4096), RefDigit((v \div 256) % 16),
                        RefDigit((v \div 16) % 16), RefDigit(v % 16)>>
    ELSE IF v >= 256 THEN <<RefDigit(v \div 256), RefDigit((v \div 16) % 16), RefDigit(v % 16)>>
    ELSE IF v >= 16 THEN <<RefDigit(v \div 16), RefDigit(v % 16)>>
    ELSE <<RefDigit(v)>>

\* an octet in decimal without leading zeros
RefOctet(v) ==
    IF v >= 100 THEN <<RefDigit(v \div 100), RefDigit((v \div 10) % 10), RefDigit(v % 10)>>
    ELSE IF v >= 10 THEN <<RefDigit(v \div 10), RefDigit(v % 10)>>
    ELSE <<RefDigit(v)>>

\* the hextets h[from..to] separated by colons
RECURSIVE RefColons(_, _, _)
RefColons(h, from, to) ==
    IF from > to THEN <<>>
    ELSE IF from = to THEN RefHextet(h[from])
    ELSE RefHextet(h[from]) \o <<":">> \o RefColons(h, from + 1, to)

\* all the hextets of h, none elided
RefExpanded(h) == RefColons(h, 1, Len(h))

\* the number of consecutive zero hextets of h from position i on
RECURSIVE RefRun(_, _)
RefRun(h, i) == IF i > Len(h) \/ h[i] # 0 THEN 0 ELSE 1 + RefRun(h, i + 1)

\* the canonical compressed text: the leftmost longest run of two or more
\* zero hextets written as '::'
RefCompressed(h) ==
    LET longest == CHOOSE n \in 0..Len(h) :
                       /\ \E i \in 1..Len(h) : RefRun(h, i) = n
                       /\ \A i \in 1..Len(h) : RefRun(h, i) <= n
        start == CHOOSE i \in 1..Len(h) :
                       /\ RefRun(h, i) = longest
                       /\ \A j \in 1..(i - 1) : RefRun(h, j) < longest
    IN  IF longest < 2 THEN RefExpanded(h)
        ELSE RefColons(h, 1, start - 1) \o <<":", ":">>
                \o RefColons(h, start + longest, Len(h))

\* a.b.c.d
RefDotted(o) ==
    RefOctet(o[1]) \o <<".">> \o RefOctet(o[2]) \o <<".">> \o RefOctet(o[3])
        \o <<".">> \o RefOctet(o[4])

\* a number given by its bytes, most significant first, as base-16 digits
\* without leading zeros
RECURSIVE RefNoLeadingZeros(_)
RefNoLeadingZeros(ds) ==
    IF ds = <<>> THEN ds
    ELSE IF Head(ds) # 0 THEN ds
    ELSE RefNoLeadingZeros(Tail(ds))

RefValueOfBytes(b) ==
    RefNoLeadingZeros([i \in 1..(2 * Len(b)) |->
        IF i % 2 = 1 THEN b[(i + 1) \div 2] \div 16 ELSE b[i \div 2] % 16])

\* the 128-bit number of eight hextets
RefValueOfHextets(h) ==
    RefValueOfBytes([i \in 1..(2 * Len(h)) |->
        IF i % 2 = 1 THEN h[(i + 1) \div 2] \div 256 ELSE h[i \div 2] % 256])

\* the eight hextets of a 16-byte buffer
RefHextetsOfBytes(b) == [i \in 1..(Len(b) \div 2) |-> b[2 * i - 1] * 256 + b[2 * i]]

\* the text of an input of parse
InputText(g) ==
    LET addr == CASE g.kind = "v4" -> RefDotted(g.o)
                  [] g.kind = "v4missing" ->
                        RefOctet(g.o[1]) \o <<".">> \o RefOctet(g.o[2]) \o <<".">>
                            \o RefOctet(g.o[3]) \o <<".">>
                  [] g.kind = "v6" ->
                        IF g.style = "compressed" THEN RefCompressed(g.h)
                        ELSE RefExpanded(g.h)
        zoned == IF g.zone = Undefined THEN addr ELSE addr \o <<"%">> \o g.zone
    IN  IF g.bracket THEN <<"[">> \o zoned \o <<"]">> ELSE zoned

(***************************************************************************)
(* The state: one call of a static method and what it returned, then the   *)
(* one accessor read on the object it returned.  The static methods and    *)
(* the accessors read no state but their argument and the object, so every *)
(* call is made from the initial state and every read on a fresh result.   *)
(***************************************************************************)

VARIABLES
    op,        \* the static method called last: "new", "parse", "fromDecimal", "splitHostPort"
    given,     \* the input of that call, as the numbers it was written from
    arg,       \* the argument passed to the call
    thrown,    \* whether the call threw an Error instead of returning
    m_bytes,   \* the fields of the IP object the call returned
    m_isV4,
    m_zone,
    got,       \* the accessor of that object read last, and its result
    hostPort   \* the pair splitHostPort returned

vars == <<op, given, arg, thrown, m_bytes, m_isV4, m_zone, got, hostPort>>

NoResult == [get |-> "none", encoding |-> "none", thrown |-> FALSE, value |-> <<>>]

\* every input has the same fields; a call fills in the ones it is written from
NoInput ==
    [kind |-> "none", o |-> <<>>, h |-> <<>>, style |-> "none", zone |-> Undefined,
     bracket |-> FALSE, port |-> Undefined, value |-> <<>>, forceV6 |-> FALSE]

NoPair == [host |-> <<>>, port |-> 0]

this == [m_bytes |-> m_bytes, m_isV4 |-> m_isV4, m_zone |-> m_zone]

\* no call made yet
Fresh == op = "new" /\ got = NoResult

Init ==
    /\ op = "new"
    /\ given = NoInput
    /\ arg = <<>>
    /\ thrown = FALSE
    /\ m_bytes = NewIP.m_bytes
    /\ m_isV4 = NewIP.m_isV4
    /\ m_zone = NewIP.m_zone
    /\ got = NoResult
    /\ hostPort = NoPair

\* IP.parse(InputText(g))
Parse(g) ==
    LET r == parse(InputText(g))
    IN  /\ Fresh
        /\ op' = "parse"
        /\ given' = g
        /\ arg' = InputText(g)
        /\ thrown' = r.thrown
        /\ m_bytes' = r.ip.m_bytes
        /\ m_isV4' = r.ip.m_isV4
        /\ m_zone' = r.ip.m_zone
        /\ got' = NoResult
        /\ hostPort' = NoPair

ParseV4 ==
    /\ Fresh
    /\ \E o \in V4Addrs, b \in BOOLEAN :
           Parse([NoInput EXCEPT !.kind = "v4", !.o = o, !.bracket = b])

ParseV4Missing ==
    /\ Fresh
    /\ \E o \in [1..3 -> Octets] \cup {SubSeq(TestV4, 1, 3)} :
           Parse([NoInput EXCEPT !.kind = "v4missing", !.o = o])

ParseV6 ==
    /\ Fresh
    /\ \E h \in V6Addrs, style \in {"compressed", "expanded"},
          z \in Zones \cup {Undefined}, b \in BOOLEAN :
           Parse([NoInput EXCEPT !.kind = "v6", !.h = h, !.style = style, !.zone = z,
                                 !.bracket = b])

\* IP.fromDecimal(dec, forceV6); value is the number as base-16 digits
FromDecimal(dec, forceV6, value) ==
    LET r == fromDecimal(dec, forceV6)
    IN  /\ Fresh
        /\ op' = "fromDecimal"
        /\ given' = [NoInput EXCEPT !.kind = "decimal", !.value = value, !.forceV6 = forceV6]
        /\ arg' = dec
        /\ thrown' = r.thrown
        /\ m_bytes' = r.ip.m_bytes
        /\ m_isV4' = r.ip.m_isV4
        /\ m_zone' = r.ip.m_zone
        /\ got' = NoResult
        /\ hostPort' = NoPair

\* a big integer below 2^128
FromDecimalBig ==
    /\ Fresh
    /\ \E h \in V6Addrs \cup {<<0, 0, 0, 0, 0, 0, o[1] * 256 + o[2], o[3] * 256 + o[4]>> : o \in V4Addrs},
          f \in BOOLEAN :
           FromDecimal([type |-> "BigInteger", value |-> RefValueOfHextets(h)], f,
                       RefValueOfHextets(h))

\* a JavaScript number, here below 2^31
FromDecimalNumber ==
    /\ Fresh
    /\ \E o \in V4Addrs, f \in BOOLEAN :
           /\ o[1] < 128
           /\ FromDecimal([type |-> "number",
                           value |-> ((o[1] * 256 + o[2]) * 256 + o[3]) * 256 + o[4]], f,
                          RefValueOfBytes(o))

\* a big integer of 2^128 or more
FromDecimalTooBig ==
    /\ Fresh
    /\ \E k \in 1..MaxExtraDigits, d \in {1, 15},
          h \in {MappedHextets(<<a, a, a, a>>) : a \in Octets} \cup {[i \in 1..8 |-> 0]},
          f \in BOOLEAN :
           LET low == RefValueOfHextets(h)
               value == [i \in 1..k |-> d] \o [i \in 1..(32 - Len(low)) |-> 0] \o low
           IN  FromDecimal([type |-> "BigInteger", value |-> value], f, value)

\* ip.toString(encoding); "none" is the call without an argument
ToString ==
    \E encoding \in {"none", "mapped", "expanded"} :
        /\ op \in {"new", "parse", "fromDecimal"}
        /\ ~thrown
        /\ got = NoResult
        /\ LET r == toString(this, encoding)
           IN  got' = [get |-> "toString", encoding |-> encoding,
                       thrown |-> r.thrown, value |-> r.value]
        /\ UNCHANGED <<op, given, arg, thrown, m_bytes, m_isV4, m_zone, hostPort>>

\* ip.decimal
Decimal ==
    /\ op \in {"new", "parse", "fromDecimal"}
    /\ ~thrown
    /\ got = NoResult
    /\ got' = [NoResult EXCEPT !.get = "decimal", !.value = decimal(this)]
    /\ UNCHANGED <<op, given, arg, thrown, m_bytes, m_isV4, m_zone, hostPort>>

\* IP.splitHostPort(host); g.port is Undefined for a host without ':port'
SplitHostPort(g, host) ==
    LET text == IF g.port = Undefined THEN host ELSE host \o <<":">> \o g.port
        r == splitHostPort(text)
    IN  /\ Fresh
        /\ op' = "splitHostPort"
        /\ given' = g
        /\ arg' = text
        /\ thrown' = r.thrown
        /\ hostPort' = [host |-> r.host, port |-> r.port]
        /\ m_bytes' = NewIP.m_bytes
        /\ m_isV4' = NewIP.m_isV4
        /\ m_zone' = NewIP.m_zone
        /\ got' = NoResult

\* the IPv6 hosts of the inputs of splitHostPort, which does not read the address
HostAddrs == {h \in V6Addrs : h[1] # 0 /\ h[2] = 0 /\ h[3] = 0 /\ h[4] = 0} \cup TestV6

Ports == NumericPorts \cup NonNumericPorts \cup {<<>>, Undefined}

SplitHostPortV4 ==
    /\ Fresh
    /\ \E o \in V4Addrs, p \in Ports :
           SplitHostPort([NoInput EXCEPT !.kind = "hostV4", !.o = o, !.port = p], RefDotted(o))

SplitHostPortBracketed ==
    /\ Fresh
    /\ \E h \in HostAddrs, z \in Zones \cup {Undefined}, p \in Ports :
           SplitHostPort([NoInput EXCEPT !.kind = "hostBracketed", !.h = h, !.zone = z, !.port = p],
                  InputText([NoInput EXCEPT !.kind = "v6", !.h = h, !.style = "compressed",
                                            !.zone = z, !.bracket = TRUE]))

SplitHostPortBare ==
    /\ Fresh
    /\ \E h \in HostAddrs, p \in Ports :
           SplitHostPort([NoInput EXCEPT !.kind = "hostBare", !.h = h, !.port = p], RefCompressed(h))

Next ==
    \/ ParseV4
    \/ ParseV4Missing
    \/ ParseV6
    \/ FromDecimalBig
    \/ FromDecimalNumber
    \/ FromDecimalTooBig
    \/ ToString
    \/ Decimal
    \/ SplitHostPortV4
    \/ SplitHostPortBracketed
    \/ SplitHostPortBare

Spec == Init /\ [][Next]_vars

(***************************************************************************)
(* The claims                                                              *)
(***************************************************************************)

ReadDefault == got.get = "toString" /\ got.encoding = "none"

ReadExpanded == got.get = "toString" /\ got.encoding = "expanded"

ReadMapped == got.get = "toString" /\ got.encoding = "mapped"

ReadDecimal == got.get = "decimal"

\* whether the eight hextets h lie in ::ffff:0:0/96
IsMapped(h) == h[1] = 0 /\ h[2] = 0 /\ h[3] = 0 /\ h[4] = 0 /\ h[5] = 0 /\ h[6] = 65535

\* the octets a.b.c.d of the mapped address h
OctetsOfMapped(h) == <<h[7] \div 256, h[7] % 256, h[8] \div 256, h[8] % 256>>

\* a text with neither zone nor brackets
PlainText == given.zone = Undefined /\ ~given.bracket

\* C1: for every valid compressed IPv6 text a (the longest run of zero hextets
\* written '::', at the start, in the middle or at the end), parse(a) returns,
\* parse(a).toString() is a and parse(a).toString('expanded') is the expanded
\* form of 8 hextets.  Stated on the addresses outside ::ffff:0:0/96, which
\* parse reads as IPv4 addresses and renders dotted.
C1_V6TextRoundTrip ==
    (op = "parse" /\ given.kind = "v6" /\ given.style = "compressed" /\ PlainText
        /\ ~IsMapped(given.h))
        => /\ ~thrown
           /\ ReadDefault => (~got.thrown /\ got.value = arg)
           /\ ReadExpanded => (~got.thrown /\ got.value = RefExpanded(given.h))

\* C2: for every dotted-decimal IPv4 text a, parse(a) returns an address with
\* isV4 true whose toString() is a.
C2_V4TextRoundTrip ==
    (op = "parse" /\ given.kind = "v4" /\ PlainText)
        => /\ ~thrown
           /\ m_isV4
           /\ ReadDefault => (~got.thrown /\ got.value = arg)

\* a dotted text of octets of one, two and three digits was parsed and written back
C2_Witness ==
    /\ op = "parse" /\ given.kind = "v4" /\ PlainText
    /\ given.o = <<255, 42, 0, 255>>
    /\ ReadDefault /\ got.value = arg

\* C3: for every n below 2^128 and both values of forceV6,
\* fromDecimal(n, forceV6).decimal is n; and for n below 2^32 the address is
\* IPv4 exactly when forceV6 is false.
C3_DecimalRoundTrip ==
    (op = "fromDecimal" /\ Len(given.value) <= 32)
        => /\ ~thrown
           /\ ReadDecimal => got.value = given.value
           /\ Len(given.value) <= 8 => (m_isV4 <=> ~given.forceV6)

\* a non-zero number below 2^32 went through fromDecimal without forceV6, became
\* an IPv4 address and was read back
C3_Witness ==
    /\ op = "fromDecimal" /\ ~given.forceV6
    /\ Len(given.value) \in 1..8
    /\ m_isV4
    /\ ReadDecimal /\ got.value = given.value

\* C4: every Address parse returns, for an IPv4 or IPv6 text with '::' at any
\* position, with or without a zone or brackets, has a buffer of 16 bytes.
C4_SixteenBytes ==
    (op = "parse" /\ given.kind \in {"v4", "v6"} /\ ~thrown) => Len(m_bytes) = 16

\* C5: an Address returned by parse or fromDecimal has a zone only if it is
\* not IPv4, also for a zoned IPv6 text of the mapped prefix.
C5_ZoneOnlyV6 ==
    (op \in {"parse", "fromDecimal"} /\ ~thrown /\ m_zone # Undefined) => ~m_isV4

\* C6: parse fails on every text 'a.b.c.' and returns no Address.
C6_MissingOctetRejected ==
    (op = "parse" /\ given.kind = "v4missing") => thrown

\* C7: splitHostPort fails on a dotted IPv4 host or a bracketed IPv6 host
\* followed by ':' and a port that is not a decimal number.
C7_BadPortRejected ==
    (op = "splitHostPort" /\ given.kind \in {"hostV4", "hostBracketed"}
        /\ given.port \in NonNumericPorts)
        => thrown

\* C8: fromDecimal fails on every value of 2^128 or more, whatever forceV6.
C8_TooBigRejected ==
    (op = "fromDecimal" /\ Len(given.value) > 32) => thrown

\* C9: parsing the fully written mapped text 0:0:0:0:0:ffff:XXXX:YYYY of a.b.c.d
\* gives the Address that parsing 'a.b.c.d' gives: the same 16 bytes, isV4,
\* toString() the dotted text, toString('mapped') the mapped text, and decimal
\* the 32-bit value of a.b.c.d.
C9_MappedTextIsDotted ==
    (op = "parse" /\ given.kind = "v6" /\ given.style = "expanded" /\ PlainText
        /\ IsMapped(given.h))
        => LET o == OctetsOfMapped(given.h)
           IN  /\ ~thrown
               /\ this = parse(RefDotted(o)).ip
               /\ m_bytes = mappedV4Prefix \o o
               /\ m_isV4
               /\ ReadDefault => (~got.thrown /\ got.value = RefDotted(o))
               /\ ReadMapped => (~got.thrown /\ got.value = arg)
               /\ ReadDecimal => got.value = RefValueOfBytes(o)

\* the mapped text of 255.42.0.255 was parsed and read back dotted
C9_Witness ==
    /\ op = "parse" /\ given.kind = "v6" /\ given.style = "expanded" /\ PlainText
    /\ given.h = MappedHextets(<<255, 42, 0, 255>>)
    /\ m_isV4
    /\ ReadDefault /\ got.value = RefDotted(<<255, 42, 0, 255>>)

\* C10: toString() of every 16-byte IPv6 Address without zone is the reference
\* rendering: the leftmost longest run of two or more zero hextets written
\* '::' wherever it lies, no single zero hextet elided, lowercase hex without
\* leading zeros, '::' for the all-zero address.
C10_CompressionRule ==
    (op \in {"new", "parse", "fromDecimal"} /\ ~thrown /\ Len(m_bytes) = 16 /\ ~m_isV4
        /\ m_zone = Undefined /\ ReadDefault)
        => /\ ~got.thrown
           /\ got.value = RefCompressed(RefHextetsOfBytes(m_bytes))

====
